---- MODULE Spec2Model ----
(***************************************************************************)
(* A model of annlight's ParameterParser (src/annlight/src/                *)
(* ParameterParser.cpp): a store of registered parameter names, each       *)
(* mapped to a string value or to the "no default" sentinel string, filled *)
(* from a line-oriented text file and written back to one.                 *)
(*                                                                         *)
(* A std::string is a sequence of one-character strings.  A text file is   *)
(* the sequence of lines getline(inFile, line, '\n') yields from it.       *)
(***************************************************************************)
EXTENDS Integers, Sequences, FiniteSets, TLC

VARIABLES
    nameValueMap,   \* per store: std::map<std::string, std::string> nameValueMap
    commentString,  \* per store: std::string commentString
    disk,           \* the one file the calls name: [exists, lines]
    result,         \* how the last step ended (return value or exception)
    phase           \* position of the round-trip caller (SpecRT only)

vars == <<nameValueMap, commentString, disk, result, phase>>

-----------------------------------------------------------------------------
(* Strings *)

NO_DEFAULT_VALUE_STRING == <<"_", "#", "N", "/", "A", "#", "_">>
DEFAULT_COMMENT_STRING == <<"#">>

\* std::string::npos, the size_type -1.
npos == -1

Spaces(k) == [i \in 1..k |-> " "]

\* The characters' codes (std::map orders its keys by std::less<std::string>).
CharCode ==
    (" " :> 32) @@ ("#" :> 35) @@ ("/" :> 47) @@ ("1" :> 49) @@ (";" :> 59) @@
    ("A" :> 65) @@ ("N" :> 78) @@ ("_" :> 95) @@ ("a" :> 97) @@ ("b" :> 98) @@
    ("c" :> 99) @@ ("d" :> 100) @@ ("v" :> 118) @@ ("w" :> 119) @@
    ("x" :> 120) @@ ("y" :> 121) @@ ("z" :> 122)

RECURSIVE StringLess(_, _)
StringLess(a, b) ==
    IF b = <<>> THEN FALSE
    ELSE IF a = <<>> THEN TRUE
    ELSE IF Head(a) # Head(b) THEN CharCode[Head(a)] < CharCode[Head(b)]
    ELSE StringLess(Tail(a), Tail(b))

\* The keys of a std::map in iteration order.
RECURSIVE SortedNames(_)
SortedNames(S) ==
    IF S = {} THEN <<>>
    ELSE LET least == CHOOSE n \in S : \A m \in S \ {n} : StringLess(n, m)
         IN  <<least>> \o SortedNames(S \ {least})

\* str.find(pat, 0): the least position (from 0) where pat occurs, or npos.
find(str, pat) ==
    LET hits == {p \in 0..(Len(str) - Len(pat)) :
                    \A j \in 1..Len(pat) : str[p + j] = pat[j]}
    IN  IF hits = {} THEN npos
        ELSE CHOOSE p \in hits : \A q \in hits : p <= q

\* str.substr(pos, count) for pos <= size; count = npos takes the rest.
substr(str, pos, count) ==
    IF count = npos \/ pos + count > Len(str)
    THEN SubSeq(str, pos + 1, Len(str))
    ELSE SubSeq(str, pos + 1, pos + count)

\* str.erase(pos, 1) for pos < size.
erase(str, pos) == SubSeq(str, 1, pos) \o SubSeq(str, pos + 2, Len(str))

-----------------------------------------------------------------------------
(* The 32-bit `unsigned` index of trim, as two 16-bit limbs. *)

UIntBase == 65536

UInt(n) == [hi |-> n \div UIntBase, lo |-> n % UIntBase]

UIntInc(u) ==
    IF u.lo < UIntBase - 1 THEN [u EXCEPT !.lo = @ + 1]
    ELSE IF u.hi < UIntBase - 1 THEN [hi |-> u.hi + 1, lo |-> 0]
    ELSE [hi |-> 0, lo |-> 0]

UIntDec(u) ==
    IF u.lo > 0 THEN [u EXCEPT !.lo = @ - 1]
    ELSE IF u.hi > 0 THEN [hi |-> u.hi - 1, lo |-> UIntBase - 1]
    ELSE [hi |-> UIntBase - 1, lo |-> UIntBase - 1]

\* u < n, for a size n below 2^31.
UIntLess(u, n) ==
    \/ u.hi < n \div UIntBase
    \/ u.hi = n \div UIntBase /\ u.lo < n % UIntBase

\* The value of an index below 2^31.
UIntVal(u) == u.hi * UIntBase + u.lo

-----------------------------------------------------------------------------
(* ParameterParser::trim *)

\* The first loop: while (i < str.length() && str[i] == ' ') { erase; i++ }.
RECURSIVE trimLeading(_, _)
trimLeading(str, i) ==
    IF UIntLess(i, Len(str)) /\ str[UIntVal(i) + 1] = " "
    THEN trimLeading(erase(str, UIntVal(i)), UIntInc(i))
    ELSE str

\* What str[i] with i past the string can do: the byte read is not a space
\* and the loop ends ("none"); it is a space and str.erase(i, 1) throws
\* std::out_of_range, i being greater than size(); the address is not mapped.
OutOfBoundsRead == {"none", "out_of_range", "SIGSEGV"}

\* The second loop: while (i >= 0 && str[i] == ' ') { erase; i-- }, i >= 0
\* being true of every unsigned.  The set of ways it can end.  (i is always
\* length-1, or that wrapped, so i = length does not arise.)
RECURSIVE trimTrailing(_, _)
trimTrailing(str, i) ==
    IF UIntLess(i, Len(str))
    THEN IF str[UIntVal(i) + 1] = " "
         THEN trimTrailing(erase(str, UIntVal(i)), UIntDec(i))
         ELSE {[str |-> str, fault |-> "none", oob |-> FALSE]}
    ELSE {[str |-> str, fault |-> f, oob |-> TRUE] : f \in OutOfBoundsRead}

\* i = str.length() - 1: computed in size_t, then narrowed to unsigned.
trim(str) ==
    LET lead == trimLeading(str, UInt(0))
    IN  trimTrailing(lead, UIntDec(UInt(Len(lead))))

-----------------------------------------------------------------------------
(* Results of a call *)

Outcome(op, status, what) ==
    [op |-> op, status |-> status, what |-> what, line |-> 0,
     value |-> <<>>, warnings |-> 0, oob |-> FALSE]

\* ParameterParser::getParameterValue
getParameterValue(map, name) ==
    IF name \notin DOMAIN map
    THEN Outcome("getParameterValue", "ParserException", "Unknown parameter name")
    ELSE IF map[name] = NO_DEFAULT_VALUE_STRING
    THEN Outcome("getParameterValue", "ParserException", "No value for parameter")
    ELSE [Outcome("getParameterValue", "ok", "") EXCEPT !.value = map[name]]

-----------------------------------------------------------------------------
(* ParameterParser::addParameter *)

\* addParameter without the search for the name: the entry is overwritten.
addParameterOverwriting(map, name, defaultValue) ==
    [map |-> (name :> (IF defaultValue = <<>>
                       THEN NO_DEFAULT_VALUE_STRING
                       ELSE defaultValue)) @@ map,
     result |-> Outcome("addParameter", "ok", "")]

\* The map and the result of addParameter(name, defaultValue) on `map`.
addParameterCall(map, name, defaultValue) ==
    IF name \in DOMAIN map
    THEN [map |-> map,
          result |-> Outcome("addParameter", "ParserException", "already exists")]
    ELSE [map |-> (name :> (IF defaultValue = <<>>
                            THEN NO_DEFAULT_VALUE_STRING
                            ELSE defaultValue)) @@ map,
          result |-> Outcome("addParameter", "ok", "")]

addParameter(s, name, defaultValue) ==
    LET call == addParameterCall(nameValueMap[s], name, defaultValue)
    IN  /\ nameValueMap' = [nameValueMap EXCEPT ![s] = call.map]
        /\ result' = call.result
        /\ UNCHANGED <<commentString, disk>>

(* ParameterParser::setCommentString *)
setCommentString(s, comment) ==
    /\ commentString' = [commentString EXCEPT ![s] = comment]
    /\ result' = Outcome("setCommentString", "ok", "")
    /\ UNCHANGED <<nameValueMap, disk>>

-----------------------------------------------------------------------------
(* ParameterParser::readParameters *)

LineEnd(status, what, map, warned, oob) ==
    [status |-> status, what |-> what, map |-> map, warned |-> warned,
     oob |-> oob]

\* The body of the while loop on one line: the set of ways it can end, with
\* status "continue" when the loop goes on to the next line.
parseLine(map, comment, line) ==
    LET commentStart == find(line, comment)
        lineToParse == substr(line, 0, commentStart)
        nameEnd == find(lineToParse, <<" ">>)
        afterValue(name, tv, oob) ==
            IF tv.fault # "none"
            THEN LineEnd(tv.fault, "", map, 0, TRUE)
            ELSE IF tv.str = <<>>
            THEN LineEnd("ParserException", "Found identifier without value",
                         map, 0, oob \/ tv.oob)
            ELSE IF name \notin DOMAIN map
            THEN LineEnd("continue", "", map, 1, oob \/ tv.oob)
            ELSE LineEnd("continue", "", [map EXCEPT ![name] = tv.str], 0,
                         oob \/ tv.oob)
        afterName(tn) ==
            IF tn.fault # "none"
            THEN {LineEnd(tn.fault, "", map, 0, TRUE)}
            ELSE {afterValue(tn.str, tv, tn.oob) :
                    tv \in trim(substr(lineToParse, nameEnd + 1, npos))}
    IN  IF Len(lineToParse) = 0
        THEN {LineEnd("continue", "", map, 0, FALSE)}
        ELSE IF nameEnd = npos
        THEN {LineEnd("ParserException", "Found parameter without value",
                      map, 0, FALSE)}
        ELSE UNION {afterName(tn) : tn \in trim(substr(lineToParse, 0, nameEnd))}

\* The while loop over the lines still to read: the set of ways the call
\* can end.  warnings counts the "Unknown parameter identifier" lines written
\* to std::cout, oob whether trim read outside its string.
RECURSIVE readLines(_, _, _, _, _, _)
readLines(map, comment, lines, lineCount, warnings, oob) ==
    IF lines = <<>>
    THEN {[map |-> map, status |-> "ok", what |-> "", line |-> 0,
           warnings |-> warnings, oob |-> oob]}
    ELSE UNION {
           IF e.status = "continue"
           THEN readLines(e.map, comment, Tail(lines), lineCount + 1,
                          warnings + e.warned, oob \/ e.oob)
           ELSE {[map |-> e.map, status |-> e.status, what |-> e.what,
                  line |-> IF e.status = "ParserException" THEN lineCount ELSE 0,
                  warnings |-> warnings, oob |-> oob \/ e.oob]}
           : e \in parseLine(map, comment, Head(lines))}

\* readParameters(filename) on a file holding `file`.
readParametersCall(map, comment, file) ==
    IF ~file.exists
    THEN {[map |-> map, status |-> "ParserException",
           what |-> "Could not open file for reading", line |-> 0,
           warnings |-> 0, oob |-> FALSE]}
    ELSE readLines(map, comment, file.lines, 1, 0, FALSE)

readParameters(s) ==
    \E r \in readParametersCall(nameValueMap[s], commentString[s], disk) :
        /\ nameValueMap' = [nameValueMap EXCEPT ![s] = r.map]
        /\ result' = [op |-> "readParameters", status |-> r.status,
                      what |-> r.what, line |-> r.line, value |-> <<>>,
                      warnings |-> r.warnings, oob |-> r.oob]
        /\ UNCHANGED <<commentString, disk>>

-----------------------------------------------------------------------------
(* ParameterParser::writeParameterFile *)

HeaderText ==
    <<" ", "D", "e", "f", "a", "u", "l", "t", " ", "c", "o", "n", "f",
    "i", "g", " ", "f", "i", "l", "e", " ", "g", "e", "n", "e", "r",
    "a", "t", "e", "d", " ", "b", "y", " ", "P", "a", "r", "a", "m",
    "e", "t", "e", "r", "P", "a", "r", "s", "e", "r">>

\* writeParameterFile without the test for the sentinel: every entry is
\* written.
writtenLinesAll(map, comment) ==
    LET names == SortedNames(DOMAIN map)
    IN  <<comment \o HeaderText>> \o
        [i \in 1..Len(names) |-> names[i] \o <<" ">> \o map[names[i]]]

\* The lines written: the header, then "name value" for each entry that is
\* not the sentinel, in the map's order.
writtenLines(map, comment) ==
    LET names == SortedNames(DOMAIN map)
        kept == SelectSeq(names, LAMBDA n : map[n] # NO_DEFAULT_VALUE_STRING)
    IN  <<comment \o HeaderText>> \o
        [i \in 1..Len(kept) |-> kept[i] \o <<" ">> \o map[kept[i]]]

\* opened: whether the file could be opened for writing.
writeParameterFile(s, opened) ==
    /\ IF opened
       THEN /\ disk' = [exists |-> TRUE,
                        lines |-> writtenLines(nameValueMap[s], commentString[s])]
            /\ result' = Outcome("writeParameterFile", "ok", "")
       ELSE /\ disk' = disk
            /\ result' = Outcome("writeParameterFile", "ParserException",
                                 "Could not open file for writing")
    /\ UNCHANGED <<nameValueMap, commentString>>

-----------------------------------------------------------------------------
(* The file system around the store: another program edits the file. *)

MaxLines == 2
MaxSpaces == 3

\* The lines an editor may add to the file.
Lines ==
    { <<>>,                                         \* an empty line
      <<"#", "c">>,                                 \* a comment
      <<" ", "#", "c">>,                            \* an indented comment
      <<"x">>,                                      \* a name alone
      <<"x", " ">>,                                 \* a name and a space
      <<"x", " ", "w", " ", "#", "c">>,             \* a value and a comment
      <<"x", " ">> \o NO_DEFAULT_VALUE_STRING,
      <<"z", " ", "w">>,                            \* a name never registered
      <<" ", "z", " ", "w">> }
    \cup { <<"x">> \o Spaces(k) \o <<"v">> : k \in 1..MaxSpaces }

AppendLine(line) ==
    /\ Len(disk.lines) < MaxLines
    /\ disk' = [exists |-> TRUE, lines |-> Append(disk.lines, line)]
    /\ result' = Outcome("AppendLine", "ok", "")
    /\ UNCHANGED <<nameValueMap, commentString>>

DeleteFile ==
    /\ disk.exists
    /\ disk' = [exists |-> FALSE, lines |-> <<>>]
    /\ result' = Outcome("DeleteFile", "ok", "")
    /\ UNCHANGED <<nameValueMap, commentString>>

-----------------------------------------------------------------------------
(* One store and its caller *)

P == "p"
Names == { <<"x">>, <<"y">> }
Defaults == { <<>>, <<"d">>, NO_DEFAULT_VALUE_STRING }
CommentStrings == { DEFAULT_COMMENT_STRING, <<";">> }

EmptyMap == [n \in {} |-> <<>>]

\* A SIGSEGV ends the process.
Running == result.status # "SIGSEGV"

Init ==
    /\ nameValueMap = [s \in {P} |-> EmptyMap]
    /\ commentString = [s \in {P} |-> DEFAULT_COMMENT_STRING]
    /\ disk = [exists |-> FALSE, lines |-> <<>>]
    /\ result = Outcome("ParameterParser", "ok", "")
    /\ phase = "none"

Register ==
    /\ Running
    /\ \E n \in Names, d \in Defaults : addParameter(P, n, d)
    /\ UNCHANGED phase

Configure ==
    /\ Running
    /\ \E c \in CommentStrings : setCommentString(P, c)
    /\ UNCHANGED phase

Load ==
    /\ Running
    /\ readParameters(P)
    /\ UNCHANGED phase

Edit ==
    /\ \E l \in Lines : AppendLine(l)
    /\ UNCHANGED phase

Delete ==
    /\ DeleteFile
    /\ UNCHANGED phase

Next == Register \/ Configure \/ Load \/ Edit \/ Delete

Spec == Init /\ [][Next]_vars

-----------------------------------------------------------------------------
(* The round trip: a writer store writes its file, a reader store loads it. *)

NamesRT == { <<"a">>, <<"b">>, <<"a", " ", "b">> }
DefaultsRT == { <<>>, <<"1">>, <<"z">>, <<" ", "1">> }
CommentStringsRT == { DEFAULT_COMMENT_STRING, <<"z">> }

InitRT ==
    /\ nameValueMap = [s \in {"writer", "reader"} |-> EmptyMap]
    /\ commentString = [s \in {"writer", "reader"} |-> DEFAULT_COMMENT_STRING]
    /\ disk = [exists |-> FALSE, lines |-> <<>>]
    /\ result = Outcome("ParameterParser", "ok", "")
    /\ phase = "writer"

WriterRegister ==
    /\ phase = "writer"
    /\ \E n \in NamesRT, d \in DefaultsRT : addParameter("writer", n, d)
    /\ UNCHANGED phase

WriterConfigure ==
    /\ phase = "writer"
    /\ \E c \in CommentStringsRT : setCommentString("writer", c)
    /\ UNCHANGED phase

WriterWrite ==
    /\ phase = "writer"
    /\ \E opened \in BOOLEAN :
          /\ writeParameterFile("writer", opened)
          /\ phase' = IF opened THEN "reader" ELSE "writer"

ReaderRegister ==
    /\ phase = "reader"
    /\ \E n \in NamesRT, d \in DefaultsRT : addParameter("reader", n, d)
    /\ UNCHANGED phase

ReaderConfigure ==
    /\ phase = "reader"
    /\ \E c \in CommentStringsRT : setCommentString("reader", c)
    /\ UNCHANGED phase

ReaderLoad ==
    /\ phase = "reader"
    /\ readParameters("reader")
    /\ phase' = "done"

NextRT ==
    \/ WriterRegister \/ WriterConfigure \/ WriterWrite
    \/ ReaderRegister \/ ReaderConfigure \/ ReaderLoad

SpecRT == InitRT /\ [][NextRT]_vars

-----------------------------------------------------------------------------
(* What the specification says a line means, stated apart from the code. *)

RECURSIVE StripLeading(_)
StripLeading(str) ==
    IF str # <<>> /\ Head(str) = " " THEN StripLeading(Tail(str)) ELSE str

RECURSIVE StripTrailing(_)
StripTrailing(str) ==
    IF str # <<>> /\ str[Len(str)] = " "
    THEN StripTrailing(SubSeq(str, 1, Len(str) - 1))
    ELSE str

\* str with all its leading and all its trailing spaces removed.
Strip(str) == StripTrailing(StripLeading(str))

OccursAt(str, pat, p) ==
    /\ p + Len(pat) <= Len(str)
    /\ \A j \in 1..Len(pat) : str[p + j] = pat[j]

\* The text of a line before the first occurrence of the comment prefix.
Content(line, comment) ==
    LET before == {p \in 0..Len(line) :
                      /\ OccursAt(line, comment, p)
                      /\ \A q \in 0..(p - 1) : ~OccursAt(line, comment, q)}
    IN  IF before = {} THEN line
        ELSE SubSeq(line, 1, CHOOSE p \in before : TRUE)

HasSpace(str) == \E i \in 1..Len(str) : str[i] = " "

FirstSpace(str) ==
    CHOOSE i \in 1..Len(str) :
        str[i] = " " /\ \A j \in 1..(i - 1) : str[j] # " "

LineName(line, comment) ==
    LET c == Content(line, comment)
    IN  Strip(SubSeq(c, 1, FirstSpace(c) - 1))

LineValue(line, comment) ==
    LET c == Content(line, comment)
    IN  Strip(SubSeq(c, FirstSpace(c) + 1, Len(c)))

Skipped(line, comment) == Content(line, comment) = <<>>

WellFormed(line, comment) ==
    /\ HasSpace(Content(line, comment))
    /\ LineValue(line, comment) # <<>>

Malformed(line, comment) ==
    /\ Content(line, comment) # <<>>
    /\ ~WellFormed(line, comment)

\* One or more spaces, then the comment prefix.
IndentedComment(line, comment) ==
    LET c == Content(line, comment)
    IN  /\ c # <<>>
        /\ c # line
        /\ \A i \in 1..Len(c) : c[i] = " "

\* The last well-formed line of `lines` naming n, or 0.
LastNaming(lines, comment, n) ==
    LET naming == {i \in 1..Len(lines) :
                      /\ WellFormed(lines[i], comment)
                      /\ LineName(lines[i], comment) = n}
    IN  IF naming = {} THEN 0
        ELSE CHOOSE i \in naming : \A j \in naming : j <= i

\* The first malformed line of `lines`, or 0.
FirstMalformed(lines, comment) ==
    LET bad == {i \in 1..Len(lines) : Malformed(lines[i], comment)}
    IN  IF bad = {} THEN 0
        ELSE CHOOSE i \in bad : \A j \in bad : i <= j

Returns(value) ==
    [Outcome("getParameterValue", "ok", "") EXCEPT !.value = value]

NoValueError ==
    Outcome("getParameterValue", "ParserException", "No value for parameter")

\* A step of store P's readParameters on an existing file.
LoadStep == result'.op = "readParameters" /\ disk.exists

-----------------------------------------------------------------------------
(* The claims *)

\* C1: for every name and default, addParameter(name, default) on a store
\* where name is not registered, then getParameterValue(name), returns the
\* default when it is non-empty, whatever its text, and raises "no value"
\* when it is empty.
C1_RegisterThenGet ==
    [][\A n \in Names, d \in Defaults :
          (addParameter(P, n, d) /\ n \notin DOMAIN nameValueMap[P])
          => getParameterValue(nameValueMap'[P], n)
               = IF d = <<>> THEN NoValueError ELSE Returns(d)]_vars

\* C2: after a load, a registered name holds the value of the last
\* well-formed line naming it with ALL leading and trailing spaces removed:
\* for any number of spaces between name and value, no leading space stays.
C2_AllSpacesTrimmed ==
    [][(LoadStep /\ result'.status = "ok")
       => \A n \in DOMAIN nameValueMap[P] :
            LET i == LastNaming(disk.lines, commentString[P], n)
            IN  i # 0 => nameValueMap'[P][n]
                           = LineValue(disk.lines[i], commentString[P])]_vars

\* C3: a load of a file whose lines are empty, comments or spaces followed
\* by the comment prefix skips them all: no error, no entry changed.
C3_IndentedCommentSkipped ==
    [][(/\ LoadStep
        /\ \A i \in 1..Len(disk.lines) :
              \/ Skipped(disk.lines[i], commentString[P])
              \/ IndentedComment(disk.lines[i], commentString[P])
        /\ \E i \in 1..Len(disk.lines) :
              IndentedComment(disk.lines[i], commentString[P]))
       => (result'.status = "ok" /\ nameValueMap' = nameValueMap)]_vars

\* C4: after any load, ended well or not, under any comment prefix, each
\* slot is unchanged or was set by a well-formed line naming it and holds a
\* value: no load turns a slot into "unset", getParameterValue of a name a
\* line assigned never raises "no value".  (Which text the value is, is C2's
\* matter.)
C4_LoadNeverUnsets ==
    [][result'.op = "readParameters"
       => \A n \in DOMAIN nameValueMap[P] :
            \/ nameValueMap'[P][n] = nameValueMap[P][n]
            \/ /\ LastNaming(disk.lines, commentString[P], n) # 0
               /\ getParameterValue(nameValueMap'[P], n).status = "ok"]_vars

\* C6: a load whose first malformed line is line k raises the parser's
\* exception citing line k, and leaves the entries as a load of lines 1..k-1
\* alone leaves them.
C6_FailFastNoRollback ==
    [][LET k == FirstMalformed(disk.lines, commentString[P])
       IN  (LoadStep /\ k # 0)
           => /\ result'.status = "ParserException"
              /\ result'.line = k
              /\ \E r \in readParametersCall(
                            nameValueMap[P], commentString[P],
                            [exists |-> TRUE,
                             lines |-> SubSeq(disk.lines, 1, k - 1)]) :
                    r.status = "ok" /\ r.map = nameValueMap'[P]]_vars

\* C7: addParameter of a name already registered raises "already exists",
\* whatever the default, and leaves the map as it was.
C7_DuplicateRejected ==
    [][\A n \in Names, d \in Defaults :
          (addParameter(P, n, d) /\ n \in DOMAIN nameValueMap[P])
          => /\ result'.status = "ParserException"
             /\ result'.what = "already exists"
             /\ nameValueMap' = nameValueMap]_vars

C7_Witness ==
    /\ result.op = "addParameter"
    /\ result.status = "ParserException"
    /\ DOMAIN nameValueMap[P] = { <<"x">> }
    /\ nameValueMap[P][<<"x">>] = <<"v">>

\* C8: a load of a file whose lines are skipped lines and well-formed lines
\* naming no registered name succeeds, changes no entry and no name, and
\* warns once per such line.
C8_UnknownNameIgnored ==
    [][(/\ LoadStep
        /\ \A i \in 1..Len(disk.lines) :
              \/ Skipped(disk.lines[i], commentString[P])
              \/ /\ WellFormed(disk.lines[i], commentString[P])
                 /\ LineName(disk.lines[i], commentString[P])
                      \notin DOMAIN nameValueMap[P])
       => /\ result'.status = "ok"
          /\ nameValueMap' = nameValueMap
          /\ result'.warnings =
               Cardinality({i \in 1..Len(disk.lines) :
                              WellFormed(disk.lines[i], commentString[P])})]_vars

\* C9: after each successful load, getParameterValue of a registered name
\* returns the value of the last well-formed line naming it, and what it
\* returned before the load when no line names it: loads merge, the last
\* write wins, no earlier value is reset.
C9_LastWriteWins ==
    [][(LoadStep /\ result'.status = "ok")
       => \A n \in DOMAIN nameValueMap[P] :
            LET i == LastNaming(disk.lines, commentString[P], n)
            IN  getParameterValue(nameValueMap'[P], n)
                  = IF i # 0
                    THEN Returns(LineValue(disk.lines[i], commentString[P]))
                    ELSE getParameterValue(nameValueMap[P], n)]_vars

\* C10: trim reads its string only at indices in [0, length): its unsigned
\* index never wraps before an access, for any string readParameters gives it.
C10_TrimInBounds == ~result.oob

-----------------------------------------------------------------------------
(* The round trip (SpecRT) *)

Writer == nameValueMap["writer"]
Reader == nameValueMap["reader"]

\* The reader registered the writer's names and uses its comment prefix.
SameSchema ==
    /\ DOMAIN Reader = DOMAIN Writer
    /\ commentString["reader"] = commentString["writer"]

\* Every entry the writer writes reads back as it was written: the comment
\* prefix is not empty and occurs in no written line, the name is not empty
\* and holds no space, the value neither starts nor ends with a space.
CleanWriter ==
    /\ commentString["writer"] # <<>>
    /\ \A n \in DOMAIN Writer :
          getParameterValue(Writer, n).status = "ok"
          => /\ n # <<>>
             /\ ~HasSpace(n)
             /\ Head(Writer[n]) # " "
             /\ Writer[n][Len(Writer[n])] # " "
             /\ \A p \in 0..(Len(n) + Len(Writer[n])) :
                   ~OccursAt(n \o <<" ">> \o Writer[n], commentString["writer"], p)

====
